---- MODULE Spec2Model ----
(***************************************************************************)
(* A model of tripy's deferred-execution tensor front end:                 *)
(*   - Tensor.eval (tripy/frontend/tensor.py): the evaluation cache, run  *)
(*     by several threads on one Tensor, with a compiler and an executor   *)
(*     that may fail and that return whatever buffer they return;          *)
(*   - Reduce / ArgMinMax (tripy/frontend/trace/ops/reduce.py): rank and   *)
(*     dtype inference, the initial values of the reductions;              *)
(*   - repeat (tripy/frontend/ops/repeat.py): argument checking and graph  *)
(*     construction.                                                       *)
(***************************************************************************)
EXTENDS Integers, Sequences, FiniteSets, TLC

(***************************************************************************)
(* Bounds of the model.                                                    *)
(***************************************************************************)
MaxEvals == 3

\* The threads that call eval on the one Tensor.
Threads == {"t1", "t2"}

\* Element types and ranks a node or a returned buffer may have.
EvalDTypes == {"float32", "int32"}
EvalRanks == {1, 2}

NoData == [id |-> -1, dtype |-> "none", rank |-> -1, device |-> "none"]
NoSnapshot == [trace_tensor |-> "none", device |-> "none"]

VARIABLES
  pc,            \* pc[t]: where thread t is in Tensor.eval
  trace_tensor,  \* self.trace_tensor: producer, dtype, rank, device
  device,        \* self.device
  data,          \* data[t]: eval's local `data`
  flat_ir,       \* flat_ir[t]: eval's local `flat_ir` (the device of its output)
  ret,           \* ret[t]: what the call returned or raised
  pre,           \* pre[t]: the Tensor as it was when the call began
  hist,          \* call counts of the instrumented compiler and executor
  red,           \* one call of sum/max/prod/all/any or argmax/argmin
  val,           \* one lowered reduction running over the elements of its input
  rep,           \* one call of repeat, and the graph it builds
  mv,            \* one call of mean or var
  tr,            \* one Trace being built for an output tensor
  nm,            \* Tensor._COUNT and the names of the Tensors constructed
  ar,            \* one call of arange
  st,            \* the streams handed out by default_stream() and Stream()
  tri,           \* one call of tril or triu
  low            \* one Reduce being lowered to flat IR

evalVars == <<pc, trace_tensor, device, data, flat_ir, ret, pre, hist>>

moreVars == <<mv, tr, nm, ar, st, tri, low>>

vars == <<evalVars, red, val, rep, moreVars>>

(***************************************************************************)
(* Storage and the early exit of eval.                                     *)
(***************************************************************************)

\* Storage.build_internal([], [trace_tensor], data) with a MemRefValue:
\* the Storage becomes the producer and its inference sets the output's
\* dtype, rank and device from the buffer.
StorageBuild(buf) ==
  [producer |-> [kind |-> "Storage", has_memref |-> TRUE, data |-> buf],
   dtype |-> buf.dtype, rank |-> buf.rank, device |-> buf.device]

\* tensor.py:166  isinstance(producer, Storage) and producer.has_memref
AlreadyEvaluated(tt) ==
  tt.producer.kind = "Storage" /\ tt.producer.has_memref

\* The Tensors eval may be called on: the output of an operation, a Tensor
\* built from Python data, a Tensor built from a buffer (__init__, 118-123).
InitialTensors ==
  { [tt |-> [producer |-> [kind |-> "Op", has_memref |-> FALSE, data |-> NoData],
             dtype |-> d, rank |-> r, device |-> "gpu"],
     device |-> "None"] : d \in EvalDTypes, r \in EvalRanks }
  \cup
  { [tt |-> [producer |-> [kind |-> "Storage", has_memref |-> FALSE, data |-> NoData],
             dtype |-> d, rank |-> r, device |-> "gpu"],
     device |-> "gpu"] : d \in EvalDTypes, r \in EvalRanks }
  \cup
  { [tt |-> StorageBuild([id |-> 0, dtype |-> d, rank |-> r, device |-> "gpu"]),
     device |-> "gpu"] : d \in EvalDTypes, r \in EvalRanks }

EvalInit ==
  /\ \E x \in InitialTensors :
       /\ trace_tensor = x.tt
       /\ device = x.device
       /\ hist = [calls |-> 0, traces |-> 0, compiles |-> 0, executes |-> 0,
                  raised |-> 0, writes |-> 0, overlap |-> FALSE,
                  inferred |-> [dtype |-> x.tt.dtype, rank |-> x.tt.rank],
                  initRealized |-> AlreadyEvaluated(x.tt),
                  steps |-> [t \in Threads |-> <<>>]]
  /\ pc = [t \in Threads |-> "idle"]
  /\ data = [t \in Threads |-> NoData]
  /\ flat_ir = [t \in Threads |-> "none"]
  /\ ret = [t \in Threads |-> "none"]
  /\ pre = [t \in Threads |-> NoSnapshot]

(***************************************************************************)
(* Tensor.eval, one action per statement that another thread can see.      *)
(***************************************************************************)

\* A caller enters eval (also through tolist, __dlpack__, __bool__).
Call(t) ==
  /\ pc[t] = "idle"
  /\ hist.calls < MaxEvals
  /\ pc' = [pc EXCEPT ![t] = "check"]
  /\ pre' = [pre EXCEPT ![t] = [trace_tensor |-> trace_tensor, device |-> device]]
  /\ ret' = [ret EXCEPT ![t] = "none"]
  /\ data' = [data EXCEPT ![t] = NoData]
  /\ flat_ir' = [flat_ir EXCEPT ![t] = "none"]
  /\ hist' = [hist EXCEPT !.calls = @ + 1,
                          !.overlap = @ \/ (\E u \in Threads : u # t /\ pc[u] # "idle"),
                          !.steps[t] = <<>>]
  /\ UNCHANGED <<trace_tensor, device>>
  /\ UNCHANGED <<red, val, rep, moreVars>>

CheckEvaluated_AlwaysRecompute(t) ==
  /\ pc[t] = "check"
  /\ pc' = [pc EXCEPT ![t] = "trace"]
  /\ UNCHANGED <<trace_tensor, device, data, flat_ir, ret, pre, hist>>
  /\ UNCHANGED <<red, val, rep, moreVars>>

\* tensor.py:166-169
CheckEvaluated(t) ==
  /\ pc[t] = "check"
  /\ IF AlreadyEvaluated(trace_tensor)
       THEN /\ ret' = [ret EXCEPT ![t] = trace_tensor.producer.data]
            /\ pc' = [pc EXCEPT ![t] = "done"]
       ELSE /\ pc' = [pc EXCEPT ![t] = "trace"]
            /\ UNCHANGED ret
  /\ UNCHANGED <<trace_tensor, device, data, flat_ir, pre, hist>>
  /\ UNCHANGED <<red, val, rep, moreVars>>

\* tensor.py:175-177  Trace([self]), to_flat_ir, to_mlir
BuildTrace(t) ==
  /\ pc[t] = "trace"
  /\ flat_ir' = [flat_ir EXCEPT ![t] = trace_tensor.device]
  /\ hist' = [hist EXCEPT !.traces = @ + 1,
                          !.steps[t] = @ \o <<"Trace", "to_flat_ir">>]
  /\ pc' = [pc EXCEPT ![t] = "compile"]
  /\ UNCHANGED <<trace_tensor, device, data, ret, pre>>
  /\ UNCHANGED <<red, val, rep, moreVars>>

\* tensor.py:179-181  the compiler accepts the program or raises
Compile(t) ==
  /\ pc[t] = "compile"
  /\ hist' = [hist EXCEPT !.compiles = @ + 1,
                          !.steps[t] = Append(@, "compile")]
  /\ \/ /\ pc' = [pc EXCEPT ![t] = "execute"]
        /\ UNCHANGED ret
     \/ /\ pc' = [pc EXCEPT ![t] = "raised"]
        /\ ret' = [ret EXCEPT ![t] = "CompilationFailure"]
  /\ UNCHANGED <<trace_tensor, device, data, flat_ir, pre>>
  /\ UNCHANGED <<red, val, rep, moreVars>>

Execute_SkipsSynchronize(t) ==
  /\ pc[t] = "execute"
  /\ hist' = [hist EXCEPT !.executes = @ + 1,
                          !.steps[t] = Append(@, "execute")]
  /\ \/ /\ \E d \in EvalDTypes, r \in EvalRanks :
             data' = [data EXCEPT ![t] = [id |-> hist.executes + 1, dtype |-> d,
                                           rank |-> r, device |-> flat_ir[t]]]
        /\ pc' = [pc EXCEPT ![t] = "set_device"]
        /\ UNCHANGED ret
     \/ /\ pc' = [pc EXCEPT ![t] = "raised"]
        /\ ret' = [ret EXCEPT ![t] = "ExecutionFailure"]
        /\ UNCHANGED data
  /\ UNCHANGED <<trace_tensor, device, flat_ir, pre>>
  /\ UNCHANGED <<red, val, rep, moreVars>>

Execute_WritesDeviceFirst(t) ==
  /\ pc[t] = "execute"
  /\ hist' = [hist EXCEPT !.executes = @ + 1,
                          !.steps[t] = Append(@, "execute")]
  /\ device' = flat_ir[t]
  /\ \/ /\ \E d \in EvalDTypes, r \in EvalRanks :
             data' = [data EXCEPT ![t] = [id |-> hist.executes + 1, dtype |-> d,
                                           rank |-> r, device |-> flat_ir[t]]]
        /\ pc' = [pc EXCEPT ![t] = "sync"]
        /\ UNCHANGED ret
     \/ /\ pc' = [pc EXCEPT ![t] = "raised"]
        /\ ret' = [ret EXCEPT ![t] = "ExecutionFailure"]
        /\ UNCHANGED data
  /\ UNCHANGED <<trace_tensor, flat_ir, pre>>
  /\ UNCHANGED <<red, val, rep, moreVars>>

\* tensor.py:184  executor.execute returns a new buffer (of whatever dtype
\* and rank the executable produces) or raises
Execute(t) ==
  /\ pc[t] = "execute"
  /\ hist' = [hist EXCEPT !.executes = @ + 1,
                          !.steps[t] = Append(@, "execute")]
  /\ \/ /\ \E d \in EvalDTypes, r \in EvalRanks :
             data' = [data EXCEPT ![t] = [id |-> hist.executes + 1, dtype |-> d,
                                           rank |-> r, device |-> flat_ir[t]]]
        /\ pc' = [pc EXCEPT ![t] = "sync"]
        /\ UNCHANGED ret
     \/ /\ pc' = [pc EXCEPT ![t] = "raised"]
        /\ ret' = [ret EXCEPT ![t] = "ExecutionFailure"]
        /\ UNCHANGED data
  /\ UNCHANGED <<trace_tensor, device, flat_ir, pre>>
  /\ UNCHANGED <<red, val, rep, moreVars>>

\* tensor.py:185-187  executor.stream.synchronize(); data = data[0]
Synchronize(t) ==
  /\ pc[t] = "sync"
  /\ \/ /\ pc' = [pc EXCEPT ![t] = "set_device"]
        /\ UNCHANGED ret
     \/ /\ pc' = [pc EXCEPT ![t] = "raised"]
        /\ ret' = [ret EXCEPT ![t] = "ExecutionFailure"]
  /\ hist' = [hist EXCEPT !.steps[t] = Append(@, "synchronize")]
  /\ UNCHANGED <<trace_tensor, device, data, flat_ir, pre>>
  /\ UNCHANGED <<red, val, rep, moreVars>>

\* tensor.py:189  self.device = flat_ir.outputs[0].device
SetDevice(t) ==
  /\ pc[t] = "set_device"
  /\ device' = flat_ir[t]
  /\ pc' = [pc EXCEPT ![t] = "write_back"]
  /\ UNCHANGED <<trace_tensor, data, flat_ir, ret, pre, hist>>
  /\ UNCHANGED <<red, val, rep, moreVars>>

\* tensor.py:191  Storage.build_internal([], [self.trace_tensor], data)
WriteBack(t) ==
  /\ pc[t] = "write_back"
  /\ trace_tensor' = StorageBuild(data[t])
  /\ hist' = [hist EXCEPT !.writes = @ + 1,
                          !.steps[t] = Append(@, "build_internal")]
  /\ pc' = [pc EXCEPT ![t] = "return"]
  /\ UNCHANGED <<device, data, flat_ir, ret, pre>>
  /\ UNCHANGED <<red, val, rep, moreVars>>

\* tensor.py:192-193  return data
Return(t) ==
  /\ pc[t] = "return"
  /\ ret' = [ret EXCEPT ![t] = data[t]]
  /\ pc' = [pc EXCEPT ![t] = "done"]
  /\ hist' = [hist EXCEPT !.steps[t] = Append(@, "return")]
  /\ UNCHANGED <<trace_tensor, device, data, flat_ir, pre>>
  /\ UNCHANGED <<red, val, rep, moreVars>>

\* The caller has its buffer, or its exception, and may call again.
Finish(t) ==
  /\ pc[t] \in {"done", "raised"}
  /\ hist' = [hist EXCEPT !.raised = IF pc[t] = "raised" THEN @ + 1 ELSE @,
                          !.steps[t] = <<>>]
  /\ pc' = [pc EXCEPT ![t] = "idle"]
  /\ UNCHANGED <<trace_tensor, device, data, flat_ir, ret, pre>>
  /\ UNCHANGED <<red, val, rep, moreVars>>

\* The other specifications leave the Tensor of the eval model untouched.
EvalParked ==
  /\ trace_tensor = [producer |-> [kind |-> "Op", has_memref |-> FALSE, data |-> NoData],
                     dtype |-> "float32", rank |-> 1, device |-> "gpu"]
  /\ device = "None"
  /\ hist = [calls |-> 0, traces |-> 0, compiles |-> 0, executes |-> 0,
             raised |-> 0, writes |-> 0, overlap |-> FALSE,
             inferred |-> [dtype |-> "float32", rank |-> 1],
             initRealized |-> FALSE,
             steps |-> [t \in Threads |-> <<>>]]
  /\ pc = [t \in Threads |-> "idle"]
  /\ data = [t \in Threads |-> NoData]
  /\ flat_ir = [t \in Threads |-> "none"]
  /\ ret = [t \in Threads |-> "none"]
  /\ pre = [t \in Threads |-> NoSnapshot]

Unused == [phase |-> "unused"]

\* mean/var, Trace, names, arange, streams, tril/triu and lowering at rest.
MoreIdle ==
  /\ mv = Unused /\ tr = Unused /\ nm = Unused /\ ar = Unused
  /\ st = Unused /\ tri = Unused /\ low = Unused

RedIdle == [phase |-> "unused"]
ValIdle == [phase |-> "unused"]
RepIdle == [phase |-> "unused"]

Init ==
  /\ EvalInit
  /\ red = RedIdle
  /\ val = ValIdle
  /\ rep = RepIdle
  /\ MoreIdle

Next ==
  \E t \in Threads :
    \/ Call(t)
    \/ CheckEvaluated(t)
    \/ BuildTrace(t)
    \/ Compile(t)
    \/ Execute(t)
    \/ Synchronize(t)
    \/ SetDevice(t)
    \/ WriteBack(t)
    \/ Return(t)
    \/ Finish(t)

Spec == Init /\ [][Next]_vars

(***************************************************************************)
(* Claims about Tensor.eval.                                               *)
(***************************************************************************)

\* C1, as stated: in any sequence of eval() calls on a Tensor, the compiler
\* and the executor are invoked exactly once in total.
C1_InvokedExactlyOnce ==
  (~hist.overlap /\ \E t \in Threads : pc[t] = "done")
    => (hist.compiles = 1 /\ hist.executes = 1)

\* C1, amended: in a sequence of non-overlapping eval() calls, a call on a
\* Tensor that already holds a buffer (from an earlier eval or from its
\* construction) returns that buffer and builds no Trace, compiles and
\* executes nothing; so besides the calls that raised, at most one call (the
\* first that succeeds) runs the compiler and the executor, it writes the
\* Storage back once, and a Tensor built from a buffer never runs them.
C1_CachedAfterFirstSuccess ==
  ~hist.overlap =>
    /\ hist.writes <= 1
    /\ hist.traces <= hist.raised + 1
    /\ hist.compiles <= hist.raised + 1
    /\ hist.executes <= hist.raised + 1
    /\ hist.initRealized =>
          (hist.traces = 0 /\ hist.compiles = 0 /\ hist.executes = 0 /\ hist.writes = 0)
    /\ \A t \in Threads :
          pc[t] = "done" =>
            /\ trace_tensor.producer.kind = "Storage"
            /\ trace_tensor.producer.has_memref
            /\ ret[t] = trace_tensor.producer.data
            /\ ~hist.initRealized =>
                  (hist.writes = 1 /\ hist.compiles = hist.raised + 1
                     /\ hist.executes >= 1)

\* C1 witness: a third call returns the cached buffer after one compilation.
C1_Witness ==
  /\ ~hist.overlap
  /\ hist.calls = 3
  /\ hist.raised = 0
  /\ hist.compiles = 1
  /\ ~hist.initRealized
  /\ \E t \in Threads : pc[t] = "done" /\ ret[t] = trace_tensor.producer.data

\* C2: when the compiler or the executor fails, the caller gets the error
\* and the Tensor (producer, dtype, rank, device) is as it was before the
\* call, so that it is still un-realized if it was.
C2_FailureLeavesTensorUntouched ==
  \A t \in Threads :
    (pc[t] = "raised" /\ ~hist.overlap) =>
      /\ ret[t] \in {"CompilationFailure", "ExecutionFailure"}
      /\ trace_tensor = pre[t].trace_tensor
      /\ device = pre[t].device
      /\ ~AlreadyEvaluated(trace_tensor)

\* C2 witness: the executor failed, after a successful compilation.
C2_Witness ==
  \E t \in Threads :
    /\ pc[t] = "raised"
    /\ ~hist.overlap
    /\ ret[t] = "ExecutionFailure"
    /\ hist.executes = 1

\* C3: with concurrent eval() calls the realized producer is written once;
\* a later writer discards its buffer, so the producer of a realized node
\* never changes and every caller holds the same buffer.
C3_SecondWriterDiscards ==
  [][AlreadyEvaluated(trace_tensor) => trace_tensor'.producer = trace_tensor.producer]_vars

\* C4: the inferred dtype and rank of the node survive the write-back of
\* eval: a call that returns leaves the node with its inferred dtype and
\* rank, and with a buffer that has them.
C4_MetadataSurvivesWriteBack ==
  \A t \in Threads :
    (pc[t] = "done" /\ ~hist.initRealized) =>
      /\ trace_tensor.dtype = hist.inferred.dtype
      /\ trace_tensor.rank = hist.inferred.rank
      /\ trace_tensor.producer.data.dtype = hist.inferred.dtype
      /\ trace_tensor.producer.data.rank = hist.inferred.rank

\* The calls of one eval in the order of the code (tensor.py:175-193).
EvalOrder ==
  <<"Trace", "to_flat_ir", "compile", "execute", "synchronize",
    "build_internal", "return">>

IsPrefix(p, q) == Len(p) <= Len(q) /\ p = SubSeq(q, 1, Len(p))

MaxRank == 2
MaxDimLen == 2

Ranks == 0..MaxRank
\* Axis indices a caller may write, in range or not.
Axes == (0 - MaxRank - 1)..MaxRank
DTypes == {"float32", "float16", "int32", "bool"}
ReduceKinds == {"SUM", "MAX", "MUL", "AND", "OR"}
ArgKinds == {"ARG_MAX", "ARG_MIN"}

SeqsUpTo(S, n) == UNION { [1..k -> S] : k \in 0..n }

None == [form |-> "none", axis |-> 0, axes |-> <<>>]
\* dim: Optional[Union[int, Sequence[int]]]; `form` tells which, `axis` holds
\* an int and `axes` a sequence
ReduceDims ==
  {None} \cup { [form |-> "int", axis |-> d, axes |-> <<>>] : d \in Axes }
         \cup { [form |-> "list", axis |-> 0, axes |-> q] : q \in SeqsUpTo(Axes, MaxDimLen) }
\* dim: Optional[int]
ArgDims == {None} \cup { [form |-> "int", axis |-> d, axes |-> <<>>] : d \in Axes }

\* tripy.utils.make_list, as reduce.py:53 and :156 use it
make_list(dim) == IF dim.form = "int" THEN <<dim.axis>> ELSE dim.axes

\* Python's sorted() on a list of ints (reduce.py:156)
sorted(q) == SortSeq(q, LAMBDA a, b : a < b)

Reduce_infer_rank_MinusOne(in_rank, dim) ==
  IF dim.form = "none"
    THEN [dim |-> [i \in 1..in_rank |-> i - 1], rank |-> 0]
    ELSE [dim |-> [i \in 1..Len(make_list(dim)) |->
                     IF make_list(dim)[i] >= 0 THEN make_list(dim)[i]
                     ELSE make_list(dim)[i] + in_rank],
          rank |-> in_rank - 1]

\* Reduce.infer_rank (reduce.py:48-55): the op's normalized dim and the
\* rank of its output
Reduce_infer_rank(in_rank, dim) ==
  IF dim.form = "none"
    THEN [dim |-> [i \in 1..in_rank |-> i - 1], rank |-> 0]
    ELSE [dim |-> [i \in 1..Len(make_list(dim)) |->
                     IF make_list(dim)[i] >= 0 THEN make_list(dim)[i]
                     ELSE make_list(dim)[i] + in_rank],
          rank |-> in_rank - Len(make_list(dim))]

ArgMinMax_infer_dtypes_Inherited(in_dtype) == in_dtype

\* ArgMinMax.infer_dtypes (reduce.py:101-102)
ArgMinMax_infer_dtypes(in_dtype) == "int32"

\* The rank of unsqueeze(out, d): one more axis.
Unsqueeze_rank(rank) == rank + 1

\* The rank of reshape(t, shape): the length of the shape given.
Reshape_rank(shape_len) == shape_len

\* The axes of a shape are followed by name: an axis of the input is
\* named by its index, and an axis of extent 1 that unsqueeze or reshape
\* inserts is named One.
One == -1

\* The axes of the output of a Reduce over the normalized axes `dims`: the
\* axes of the input that are not reduced, in their order.
KeptAxes(in_rank, dims) ==
  SelectSeq([i \in 1..in_rank |-> i - 1],
            LAMBDA a : a \notin { dims[k] : k \in 1..Len(dims) })

\* unsqueeze(out, d) on a tensor of the given rank inserts an axis of
\* extent 1 at index d, a negative d counting from the end of the result;
\* the indices -(rank + 1) .. rank are valid.
UnsqueezeIndex(d, rank) == IF d < 0 THEN d + rank + 1 ELSE d
UnsqueezeValid(d, rank) == UnsqueezeIndex(d, rank) \in 0..rank
InsertAt(q, idx, x) == SubSeq(q, 1, idx) \o <<x>> \o SubSeq(q, idx + 1, Len(q))

\* The axes after unsqueeze(out, d): the new axis at its index, or, for an
\* index out of range, wherever the failing step may leave it.
UnsqueezeResults(axes, d) ==
  IF UnsqueezeValid(d, Len(axes))
    THEN { InsertAt(axes, UnsqueezeIndex(d, Len(axes)), One) }
    ELSE { InsertAt(axes, idx, One) : idx \in 0..Len(axes) }

RedInit ==
  \E r \in Ranks, dt \in DTypes, kd \in BOOLEAN :
    \/ \E k \in ReduceKinds, d \in ReduceDims :
         red = [phase |-> "start", fn |-> "reduce", kind |-> k, in_rank |-> r,
                in_dtype |-> dt, dim |-> d, keepdim |-> kd, tensor_rank |-> r,
                op_dim |-> <<>>, out_rank |-> -1, out_dtype |-> "none",
                pending |-> <<>>, err |-> "none",
                out_axes |-> <<>>, unsqueeze_out_of_range |-> FALSE]
    \/ \E k \in ArgKinds, d \in ArgDims :
         red = [phase |-> "start", fn |-> "arg", kind |-> k, in_rank |-> r,
                in_dtype |-> dt, dim |-> d, keepdim |-> kd, tensor_rank |-> r,
                op_dim |-> <<>>, out_rank |-> -1, out_dtype |-> "none",
                pending |-> <<>>, err |-> "none",
                out_axes |-> <<>>, unsqueeze_out_of_range |-> FALSE]

RedFrame == UNCHANGED <<evalVars, val, rep, moreVars>>

\* _reduce_impl, reduce.py:151  out = Reduce.build([input], dim, kind)
ReduceBuild ==
  /\ red.phase = "start" /\ red.fn = "reduce"
  /\ LET inf == Reduce_infer_rank(red.in_rank, red.dim) IN
       red' = [red EXCEPT !.op_dim = inf.dim, !.out_rank = inf.rank,
                          !.out_dtype = red.in_dtype,
                          !.out_axes = KeptAxes(red.in_rank, inf.dim),
                          !.phase = IF red.keepdim THEN "keepdim" ELSE "done",
                          !.pending = IF red.dim.form = "none" THEN <<>>
                                      ELSE sorted(make_list(red.dim))]
  /\ RedFrame

\* _reduce_impl, reduce.py:153-154  out = reshape(out, (1,) * input.rank)
ReduceKeepdimReshape ==
  /\ red.phase = "keepdim" /\ red.fn = "reduce" /\ red.dim.form = "none"
  /\ red' = [red EXCEPT !.out_rank = Reshape_rank(red.in_rank),
                        !.out_axes = [i \in 1..red.in_rank |-> One],
                        !.phase = "done"]
  /\ RedFrame

\* _reduce_impl, reduce.py:156-157  for d in sorted(make_list(dim)):
\*                                      out = unsqueeze(out, d)
ReduceKeepdimUnsqueeze ==
  /\ red.phase = "keepdim" /\ red.fn = "reduce" /\ red.dim.form # "none"
  /\ IF red.pending = <<>>
       THEN red' = [red EXCEPT !.phase = "done"]
       ELSE \E axes \in UnsqueezeResults(red.out_axes, Head(red.pending)) :
              red' = [red EXCEPT
                        !.out_rank = Unsqueeze_rank(red.out_rank),
                        !.out_axes = axes,
                        !.unsqueeze_out_of_range =
                           @ \/ ~UnsqueezeValid(Head(red.pending), Len(red.out_axes)),
                        !.pending = Tail(red.pending)]
  /\ RedFrame

\* _arg_min_max_impl, reduce.py:401-403  tensor = reshape(tensor, (-1,))
ArgFlatten ==
  /\ red.phase = "start" /\ red.fn = "arg"
  /\ red' = [red EXCEPT !.tensor_rank = IF red.dim.form = "none"
                                          THEN Reshape_rank(1) ELSE red.in_rank,
                        !.phase = "flattened"]
  /\ RedFrame

\* _arg_min_max_impl, reduce.py:404-405  indices = iota_like(...);
\*                                       out = ArgMinMax.build([tensor, indices], dim, kind)
ArgBuild ==
  /\ red.phase = "flattened" /\ red.fn = "arg"
  /\ LET inf == Reduce_infer_rank(red.tensor_rank, red.dim) IN
       red' = [red EXCEPT !.op_dim = inf.dim, !.out_rank = inf.rank,
                          !.out_dtype = ArgMinMax_infer_dtypes(red.in_dtype),
                          !.out_axes = KeptAxes(red.tensor_rank, inf.dim),
                          !.phase = IF red.keepdim THEN "keepdim" ELSE "done"]
  /\ RedFrame

\* _arg_min_max_impl, reduce.py:406-410
ArgKeepdim ==
  /\ red.phase = "keepdim" /\ red.fn = "arg"
  /\ \E axes \in IF red.dim.form = "none"
                    THEN { [i \in 1..red.in_rank |-> One] }
                    ELSE UnsqueezeResults(red.out_axes, red.dim.axis) :
       red' = [red EXCEPT
                 !.out_rank = IF red.dim.form = "none"
                                THEN Reshape_rank(red.in_rank)
                                ELSE Unsqueeze_rank(red.out_rank),
                 !.out_axes = axes,
                 !.unsqueeze_out_of_range =
                    @ \/ (red.dim.form # "none"
                           /\ ~UnsqueezeValid(red.dim.axis, Len(red.out_axes))),
                 !.phase = "done"]
  /\ RedFrame

RedNext ==
  \/ ReduceBuild
  \/ ReduceKeepdimReshape
  \/ ReduceKeepdimUnsqueeze
  \/ ArgFlatten
  \/ ArgBuild
  \/ ArgKeepdim

InitReduce ==
  /\ EvalParked
  /\ RedInit
  /\ val = ValIdle
  /\ rep = RepIdle
  /\ MoreIdle

SpecReduce == InitReduce /\ [][RedNext]_vars

(***************************************************************************)
(* Claims about Reduce and ArgMinMax inference.                            *)
(***************************************************************************)

InRange(d, rank) == 0 - rank <= d /\ d < rank
NormAxis(d, rank) == IF d >= 0 THEN d ELSE d + rank

\* The set of axes a dim reduces on an input of the given rank.
ReducedAxes(dim, rank) ==
  IF dim.form = "none" THEN 0..(rank - 1)
  ELSE { NormAxis(make_list(dim)[i], rank) : i \in 1..Len(make_list(dim)) }

\* A valid dim: None, or axes in [-rank, rank) that are pairwise distinct.
ValidDim(dim, rank) ==
  \/ dim.form = "none"
  \/ /\ \A i \in 1..Len(make_list(dim)) : InRange(make_list(dim)[i], rank)
     /\ Cardinality(ReducedAxes(dim, rank)) = Len(make_list(dim))

\* C5: for a valid dim, sum/max/prod/all/any give rank r with keepdim=True
\* and rank r minus the number of reduced axes with keepdim=False.
C5_ReduceRank ==
  (red.phase = "done" /\ red.fn = "reduce" /\ ValidDim(red.dim, red.in_rank)) =>
    red.out_rank = IF red.keepdim THEN red.in_rank
                   ELSE red.in_rank - Cardinality(ReducedAxes(red.dim, red.in_rank))

\* C5 witness: a reduction over two axes, one written negative, keepdim=True.
C5_Witness ==
  /\ red.phase = "done" /\ red.fn = "reduce" /\ red.keepdim
  /\ red.in_rank = 2
  /\ red.dim = [form |-> "list", axis |-> 0, axes |-> <<-1, 0>>]
  /\ red.out_rank = 2

\* C6: a Reduce whose dim holds a duplicate or an out-of-range axis is
\* rejected with InvalidAxis; its inference never completes with an output
\* rank.
C6_InvalidAxisRejected ==
  (red.phase # "start" /\ red.fn = "reduce" /\ ~ValidDim(red.dim, red.in_rank)) =>
    (red.err = "InvalidAxis" /\ red.phase = "rejected")

\* C9: argmax/argmin give int32 for every input dtype; their rank is the
\* input rank minus one (0 when dim is None, the input being flattened to
\* rank 1 first), and the input rank with keepdim=True.
C9_ArgMinMaxDtypeRank ==
  (red.phase = "done" /\ red.fn = "arg" /\ ValidDim(red.dim, red.in_rank)) =>
    /\ red.out_dtype = "int32"
    /\ red.dim.form = "none" => red.tensor_rank = 1
    /\ red.out_rank = IF red.keepdim THEN red.in_rank
                      ELSE IF red.dim.form = "none" THEN 0
                      ELSE red.in_rank - 1

\* C9 witness: argmax of a float input over all elements, keepdim=True.
C9_Witness ==
  /\ red.phase = "done" /\ red.fn = "arg" /\ red.kind = "ARG_MAX"
  /\ red.in_dtype = "float32" /\ red.in_rank = 2
  /\ red.dim.form = "none" /\ red.keepdim
  /\ red.out_dtype = "int32" /\ red.out_rank = 2

(***************************************************************************)
(* The lowered reductions at work: Reduce.to_flat_ir seeds a reduce op     *)
(* with the kind's init_value, ArgMinMax.to_flat_ir seeds an arg-reduce op *)
(* with a zero value and a zero index; the op then runs over the elements  *)
(* along the reduced axis.                                                 *)
(***************************************************************************)
MaxLen == 3
MaxAbs == 2

Elems == (0 - MaxAbs)..MaxAbs
NonEmptySeqs(S) == UNION { [1..k -> S] : k \in 1..MaxLen }

\* Reduce.Kind.init_value (reduce.py:36-40)
init_value(kind) ==
  CASE kind = "SUM" -> 0
    [] kind = "MAX" -> 0
    [] kind = "MUL" -> 1
    [] kind = "AND" -> TRUE
    [] kind = "OR" -> FALSE

\* The binary operator each Reduce.Kind.op names (reduce.py:36-40)
Combine(kind, a, b) ==
  CASE kind = "SUM" -> a + b
    [] kind = "MAX" -> IF a >= b THEN a ELSE b
    [] kind = "MUL" -> a * b
    [] kind = "AND" -> a /\ b
    [] kind = "OR" -> a \/ b

\* The two constants ArgMinMax.to_flat_ir builds (reduce.py:128-137):
\* Array(0, dtype=inputs[0].dtype) and Array(0, dtype=outputs[0].dtype)
ArgInitVal == 0
ArgInitIdx == 0

\* One step of the arg-reduce op: the running best (value, index) meets the
\* element x at index k; a strictly better x replaces it.
ArgUpdate(kind, best, x, k) ==
  IF (kind = "ARG_MAX" /\ x > best.v) \/ (kind = "ARG_MIN" /\ x < best.v)
    THEN [v |-> x, i |-> k]
    ELSE best

ValInit ==
  \/ \E k \in {"SUM", "MAX", "MUL"}, q \in NonEmptySeqs(Elems) :
       val = [phase |-> "lowered", fn |-> "reduce", kind |-> k, elems |-> q,
              pos |-> 1, acc |-> 0, best |-> [v |-> 0, i |-> 0]]
  \/ \E k \in {"AND", "OR"}, q \in NonEmptySeqs(BOOLEAN) :
       val = [phase |-> "lowered", fn |-> "reduce", kind |-> k, elems |-> q,
              pos |-> 1, acc |-> FALSE, best |-> [v |-> 0, i |-> 0]]
  \/ \E k \in ArgKinds, q \in NonEmptySeqs(Elems) :
       val = [phase |-> "lowered", fn |-> "arg", kind |-> k, elems |-> q,
              pos |-> 1, acc |-> 0, best |-> [v |-> 0, i |-> 0]]

ValFrame == UNCHANGED <<evalVars, red, rep, moreVars>>

\* Reduce.to_flat_ir, reduce.py:64-87: the constant holding init_value
\* (converted to the output dtype when the literal's type differs)
ReduceSeed ==
  /\ val.phase = "lowered" /\ val.fn = "reduce"
  /\ val' = [val EXCEPT !.acc = init_value(val.kind), !.phase = "running"]
  /\ ValFrame

\* Reduce.to_flat_ir, reduce.py:89: ReduceOp over (input, init_const)
ReduceStep ==
  /\ val.phase = "running" /\ val.fn = "reduce"
  /\ IF val.pos > Len(val.elems)
       THEN val' = [val EXCEPT !.phase = "done"]
       ELSE val' = [val EXCEPT !.acc = Combine(val.kind, val.acc, val.elems[val.pos]),
                               !.pos = @ + 1]
  /\ ValFrame

\* ArgMinMax.to_flat_ir, reduce.py:111-137: init_val_const, init_idx_const
ArgSeed ==
  /\ val.phase = "lowered" /\ val.fn = "arg"
  /\ val' = [val EXCEPT !.best = [v |-> ArgInitVal, i |-> ArgInitIdx],
                        !.phase = "running"]
  /\ ValFrame

\* ArgMinMax.to_flat_ir, reduce.py:139-144: ArgMinMaxOp over
\* (input, indices, init_val_const, init_idx_const); indices is the iota
\* along the reduced axis (reduce.py:404)
ArgStep ==
  /\ val.phase = "running" /\ val.fn = "arg"
  /\ IF val.pos > Len(val.elems)
       THEN val' = [val EXCEPT !.phase = "done"]
       ELSE val' = [val EXCEPT !.best = ArgUpdate(val.kind, val.best,
                                                  val.elems[val.pos], val.pos - 1),
                               !.pos = @ + 1]
  /\ ValFrame

ValNext ==
  \/ ReduceSeed
  \/ ReduceStep
  \/ ArgSeed
  \/ ArgStep

InitValues ==
  /\ EvalParked
  /\ red = RedIdle
  /\ ValInit
  /\ rep = RepIdle
  /\ MoreIdle

SpecValues == InitValues /\ [][ValNext]_vars

(***************************************************************************)
(* Claims about the values of the reductions.                              *)
(***************************************************************************)

\* The reduction of the elements alone, left to right.
RECURSIVE ReduceAlone(_, _)
ReduceAlone(kind, q) ==
  IF Len(q) = 1 THEN q[1]
  ELSE Combine(kind, ReduceAlone(kind, SubSeq(q, 1, Len(q) - 1)), q[Len(q)])

\* C7: every Reduce.Kind's init_value is the identity of its operator:
\* seeding the reduction with it gives the reduction of the elements alone.
C7_InitValueIsIdentity ==
  (val.phase = "done" /\ val.fn = "reduce") =>
    val.acc = ReduceAlone(val.kind, val.elems)

Extreme(kind, q) ==
  IF kind = "ARG_MAX"
    THEN CHOOSE x \in { q[i] : i \in 1..Len(q) } : \A j \in 1..Len(q) : q[j] <= x
    ELSE CHOOSE x \in { q[i] : i \in 1..Len(q) } : \A j \in 1..Len(q) : q[j] >= x

\* The 0-based index of the first occurrence of the extreme value.
FirstExtreme(kind, q) ==
  (CHOOSE i \in 1..Len(q) :
     /\ q[i] = Extreme(kind, q)
     /\ \A j \in 1..(i - 1) : q[j] # Extreme(kind, q)) - 1

HasTie(kind, q) ==
  Cardinality({ i \in 1..Len(q) : q[i] = Extreme(kind, q) }) > 1

\* C8: when several positions hold the extreme value, argmax/argmin return
\* the index of its first occurrence.
C8_FirstOccurrence ==
  (val.phase = "done" /\ val.fn = "arg" /\ HasTie(val.kind, val.elems)) =>
    val.best.i = FirstExtreme(val.kind, val.elems)

(***************************************************************************)
(* repeat (repeat.py): the argument check and the graph it builds.         *)
(***************************************************************************)
MaxExtent == 2
MaxRepeats == 2

Shapes == UNION { [1..r -> 1..MaxExtent] : r \in 1..MaxRank }

\* repeats: Union[int, ShapeScalar].  An int is any integer; a ShapeScalar
\* is a scalar of a shape, a non-negative integer.
RepeatsArgs ==
  { [form |-> "int", n |-> n] : n \in (0 - MaxRepeats)..MaxRepeats }
  \cup { [form |-> "ShapeScalar", n |-> n] : n \in 0..MaxRepeats }

\* @frontend_utils.process_dim (repeat.py:29): a negative dim counts from
\* the end
process_dim(dim, rank) == IF dim < 0 THEN dim + rank ELSE dim

RepeatsRejected_BelowMinusOne(repeats) == repeats.form = "int" /\ repeats.n < -1

\* repeat.py:76-77  isinstance(repeats, int) and repeats < 0
RepeatsRejected(repeats) == repeats.form = "int" /\ repeats.n < 0

\* The nodes the graph holds before the call: the input, and the repeats
\* when the caller passes it as a ShapeScalar.
GraphBefore(repeats) ==
  IF repeats.form = "ShapeScalar" THEN <<"input", "repeats">> ELSE <<"input">>

\* The number of elements of a shape.
RECURSIVE Prod(_)
Prod(q) == IF q = <<>> THEN 1 ELSE Head(q) * Prod(Tail(q))

\* Row-major layout: coordinate k (0-based) of the element at flat position
\* p (0-based) of a tensor of the given shape, and the position of a
\* coordinate vector.
Coord(p, shape, k) == (p \div Prod(SubSeq(shape, k + 1, Len(shape)))) % shape[k]

RECURSIVE FlatOf(_, _)
FlatOf(c, shape) ==
  IF c = <<>> THEN 0
  ELSE Head(c) * Prod(Tail(shape)) + FlatOf(Tail(c), Tail(shape))

\* The input: element p of the flat data is labelled p, so that every
\* element of the result tells which input element it is.
Labelled(shape) == [shape |-> shape, elems |-> [p \in 1..Prod(shape) |-> p]]

\* unsqueeze(t, axis): a new axis of extent 1 at `axis`, the data unchanged.
Unsqueeze(t, axis) ==
  [shape |-> SubSeq(t.shape, 1, axis) \o <<1>> \o SubSeq(t.shape, axis + 1, Len(t.shape)),
   elems |-> t.elems]

\* expand(t, shape): every axis of extent 1 is broadcast to the extent asked.
Expand(t, shape) ==
  [shape |-> shape,
   elems |-> [p \in 1..Prod(shape) |->
                t.elems[1 + FlatOf([k \in 1..Len(shape) |->
                                      IF t.shape[k] = 1 THEN 0
                                      ELSE Coord(p - 1, shape, k) % t.shape[k]],
                                   t.shape)]]]

\* reshape(t, shape): the same data in row-major order under a new shape.
Reshape(t, shape) == [shape |-> shape, elems |-> t.elems]

RepeatUnsqueezeAxis_AtDim(dim) == dim

\* repeat.py:92  the axis of unsqueeze(input, dim + 1)
RepeatUnsqueezeAxis(dim) == dim + 1

RepInit ==
  \E sh \in Shapes, rp \in RepeatsArgs :
    \E d \in (0 - Len(sh))..(Len(sh) - 1) :
      rep = [phase |-> "called", shape |-> sh, dim_arg |-> d, dim |-> d,
             repeats |-> rp, out_shape |-> sh, out_elems |-> Labelled(sh).elems,
             graph |-> GraphBefore(rp), err |-> "none"]

RepFrame == UNCHANGED <<evalVars, red, val, moreVars>>

\* repeat.py:29, 76-79: the decorator normalizes dim; a negative int
\* repeats raises, another int becomes a ShapeScalar
RepeatCheck ==
  /\ rep.phase = "called"
  /\ IF RepeatsRejected(rep.repeats)
       THEN rep' = [rep EXCEPT !.err = "InvalidArgument", !.phase = "raised"]
       ELSE rep' = [rep EXCEPT
                      !.dim = process_dim(rep.dim_arg, Len(rep.shape)),
                      !.graph = IF rep.repeats.form = "int"
                                  THEN Append(@, "ShapeScalar") ELSE @,
                      !.phase = "unsqueeze"]
  /\ RepFrame

\* repeat.py:92  out = unsqueeze(input, dim + 1)
RepeatUnsqueeze ==
  /\ rep.phase = "unsqueeze"
  /\ LET out == Unsqueeze(Labelled(rep.shape), RepeatUnsqueezeAxis(rep.dim)) IN
       rep' = [rep EXCEPT
                 !.out_shape = out.shape,
                 !.out_elems = out.elems,
                 !.graph = Append(@, "unsqueeze"),
                 !.phase = "expand"]
  /\ RepFrame

\* repeat.py:93  out = expand(out, input.shape[:dim+1] + Shape([repeats])
\*                                 + input.shape[dim+1:])
RepeatExpand ==
  /\ rep.phase = "expand"
  /\ LET out == Expand([shape |-> rep.out_shape, elems |-> rep.out_elems],
                       SubSeq(rep.shape, 1, rep.dim + 1) \o <<rep.repeats.n>>
                         \o SubSeq(rep.shape, rep.dim + 2, Len(rep.shape))) IN
       rep' = [rep EXCEPT
                 !.out_shape = out.shape,
                 !.out_elems = out.elems,
                 !.graph = Append(@, "expand"),
                 !.phase = "reshape"]
  /\ RepFrame

\* repeat.py:95-99  repeat_mask[dim] = repeats;
\*                  out = reshape(out, input.shape.multiply(Shape(repeat_mask)))
RepeatReshape ==
  /\ rep.phase = "reshape"
  /\ LET out == Reshape([shape |-> rep.out_shape, elems |-> rep.out_elems],
                        [i \in 1..Len(rep.shape) |->
                           IF i = rep.dim + 1 THEN rep.shape[i] * rep.repeats.n
                           ELSE rep.shape[i] * 1]) IN
       rep' = [rep EXCEPT
                 !.out_shape = out.shape,
                 !.out_elems = out.elems,
                 !.graph = Append(@, "reshape"),
                 !.phase = "done"]
  /\ RepFrame

RepNext ==
  \/ RepeatCheck
  \/ RepeatUnsqueeze
  \/ RepeatExpand
  \/ RepeatReshape

InitRepeat ==
  /\ EvalParked
  /\ red = RedIdle
  /\ val = ValIdle
  /\ RepInit
  /\ MoreIdle

SpecRepeat == InitRepeat /\ [][RepNext]_vars

(***************************************************************************)
(* Claims about repeat.                                                    *)
(***************************************************************************)

C11_RepeatIsElementwise ==
  rep.phase = "done" =>
    /\ Len(rep.out_shape) = Len(rep.shape)
    /\ \A i \in 1..Len(rep.shape) :
         rep.out_shape[i] = IF i = rep.dim + 1 THEN rep.shape[i] * rep.repeats.n
                            ELSE rep.shape[i]
    /\ Len(rep.out_elems) = Prod(rep.out_shape)
    /\ \A p \in 1..Len(rep.out_elems) :
         rep.out_elems[p] =
           1 + FlatOf([k \in 1..Len(rep.shape) |->
                         IF k = rep.dim + 1
                           THEN Coord(p - 1, rep.out_shape, k) \div rep.repeats.n
                           ELSE Coord(p - 1, rep.out_shape, k)],
                      rep.shape)

\* C11 witness: repeat([1, 2], 2, 0) = [1, 1, 2, 2].
C11_Witness ==
  /\ rep.phase = "done"
  /\ rep.shape = <<2>> /\ rep.repeats.n = 2 /\ rep.dim = 0
  /\ rep.out_shape = <<4>>
  /\ rep.out_elems = <<1, 1, 2, 2>>

\* C11 witness of the empty case: n = 0 gives an empty extent along dim.
C11_WitnessEmpty ==
  /\ rep.phase = "done" /\ rep.repeats.n = 0
  /\ rep.out_shape[rep.dim + 1] = 0 /\ rep.out_elems = <<>>

\* ---------------------------------------------------------------------
\* mean and var (reduce.py:303-393) on a tensor whose elements all hold the
\* same value
\* ---------------------------------------------------------------------

MaxCorrection == 3

\* Python's q[d] for a 0-based index d that may be negative
PyIndex(q, d) == q[IF d < 0 THEN d + Len(q) + 1 ELSE d + 1]

\* What sum(tensor, dim) holds in each element of its output when every
\* element of the input is x: the Reduce op adds the elements along its
\* normalized axes (reduce.py:48-55, 89).
RECURSIVE SumOverAxes(_, _, _)
SumOverAxes(x, shape, axes) ==
  IF axes = <<>> THEN x
  ELSE SumOverAxes(x * shape[Head(axes) + 1], shape, Tail(axes))

\* reduce.py:309  nb_elements = prod(input_shape, dim=0, keepdim=True)
nb_elements(input_shape) == <<Prod(input_shape)>>

\* reduce.py:310, 313-314  the loop over make_list(dim)
RECURSIVE nb_elements_in_mean_dim(_, _)
nb_elements_in_mean_dim(input_shape, dims) ==
  IF dims = <<>> THEN 1
  ELSE PyIndex(input_shape, Head(dims)) * nb_elements_in_mean_dim(input_shape, Tail(dims))

MeanDivisor_AlwaysTotal(input_shape, dim) == nb_elements(input_shape)[1]

\* reduce.py:312-317  divisor
MeanDivisor(input_shape, dim) ==
  IF dim.form # "none"
    THEN nb_elements_in_mean_dim(input_shape, make_list(dim))
    ELSE nb_elements(input_shape)[1]

\* binary_elementwise.maximum on two integers
maximum(a, b) == IF a >= b THEN a ELSE b

apply_to_divisor_Unclamped(x, correction) == x - correction

\* reduce.py:393  apply_to_divisor=lambda x: maximum(x - correction, 0)
apply_to_divisor(x, correction) == maximum(x - correction, 0)

MeanShapes == UNION { [1..r -> 1..MaxExtent] : r \in 0..MaxRank }

\* The values the input's elements hold.
MeanValues == {-1, 0, 2}

\* One call of mean(input, dim) or var(input, dim, correction); keepdim
\* shapes the result and takes no part in its values.  `x` is the value every element of the tensor handed to
\* mean_impl holds; var calls mean first (stage "inner") and then
\* mean_impl on the squared differences (stage "outer").
MvInit ==
  \E fn \in {"mean", "var"}, sh \in MeanShapes, v \in MeanValues,
     c \in 0..MaxCorrection :
    \E dim \in { d \in ReduceDims : ValidDim(d, Len(sh)) } :
      /\ fn = "mean" => c = 0
      /\ mv = [phase |-> "called", fn |-> fn,
               stage |-> IF fn = "var" THEN "inner" ELSE "outer",
               shape |-> sh, dim |-> dim, v |-> v,
               correction |-> c, x |-> v, sum_val |-> 0, divisor |-> 0,
               result |-> 0, nan |-> FALSE, raised |-> FALSE]

MvFrame == UNCHANGED <<evalVars, red, val, rep, tr, nm, ar, st, tri, low>>

\* reduce.py:306  sum_val = sum(tensor, dim=dim, keepdim=keepdim)
MeanSum ==
  /\ mv.phase = "called"
  /\ mv' = [mv EXCEPT
              !.sum_val = SumOverAxes(mv.x, mv.shape,
                                      Reduce_infer_rank(Len(mv.shape), mv.dim).dim),
              !.phase = "count"]
  /\ MvFrame

\* reduce.py:308-317
MeanCount ==
  /\ mv.phase = "count"
  /\ mv' = [mv EXCEPT !.divisor = MeanDivisor(mv.shape, mv.dim),
                      !.phase = "apply"]
  /\ MvFrame

\* reduce.py:319-320  only var passes apply_to_divisor, and only to the
\* mean_impl call of line 393
ApplyToDivisor ==
  /\ mv.phase = "apply"
  /\ mv' = [mv EXCEPT
              !.divisor = IF mv.fn = "var" /\ mv.stage = "outer"
                            THEN apply_to_divisor(@, mv.correction) ELSE @,
              !.phase = "divide"]
  /\ MvFrame

\* reduce.py:322  sum_val / cast(divisor, sum_val.dtype): the quotient is
\* not a number when the divisor is 0
MeanDivide ==
  /\ mv.phase = "divide"
  /\ mv' = [mv EXCEPT
              !.result = IF mv.divisor = 0 THEN 0 ELSE mv.sum_val \div mv.divisor,
              !.nan = (mv.divisor = 0),
              !.phase = IF mv.stage = "inner" THEN "sub" ELSE "done"]
  /\ MvFrame

\* reduce.py:392-393  sub = (input - mean_val) ** 2.0, handed to mean_impl
VarSub ==
  /\ mv.phase = "sub"
  /\ mv' = [mv EXCEPT
              !.x = (mv.v - mv.result) * (mv.v - mv.result),
              !.stage = "outer",
              !.phase = "called"]
  /\ MvFrame

MvNext ==
  \/ MeanSum
  \/ MeanCount
  \/ ApplyToDivisor
  \/ MeanDivide
  \/ VarSub

InitMean ==
  /\ EvalParked
  /\ red = RedIdle
  /\ val = ValIdle
  /\ rep = RepIdle
  /\ MvInit
  /\ tr = Unused /\ nm = Unused /\ ar = Unused
  /\ st = Unused /\ tri = Unused /\ low = Unused

SpecMean == InitMean /\ [][MvNext]_vars

\* The number of input elements behind one element of the reduction.
CountOver(shape, dim) ==
  LET axes == ReducedAxes(dim, Len(shape))
      RECURSIVE P(_)
      P(S) == IF S = {} THEN 1
              ELSE LET a == CHOOSE a \in S : TRUE IN shape[a + 1] * P(S \ {a})
  IN P(axes)

\* C12: mean(x, dim) is sum(x, dim) divided by the product of the input's
\* extents over the reduced axes (all axes when dim is None), so the mean of
\* a tensor whose elements are all v is v.
C12_MeanDividesByCount ==
  (mv.fn = "mean" /\ mv.phase = "done") =>
    /\ mv.divisor = CountOver(mv.shape, mv.dim)
    /\ mv.sum_val = mv.v * mv.divisor
    /\ mv.result = mv.v
    /\ ~mv.nan

\* C12 witness: the mean over a negative axis of a 2 x 1 tensor of a
\* non-zero value.
C12_Witness ==
  /\ mv.fn = "mean" /\ mv.phase = "done"
  /\ mv.shape = <<2, 1>> /\ mv.dim.form = "int" /\ mv.dim.axis = -2
  /\ mv.v = 2 /\ mv.divisor = 2 /\ mv.result = 2

\* C13: var divides by max(0, N - correction), N the number of elements
\* over the reduced axes: building the graph never raises, the divisor is
\* never negative, and it is exactly 0 when N <= correction.
C13_VarDivisorClamped ==
  (mv.fn = "var" /\ mv.stage = "outer" /\ mv.phase \in {"divide", "done"}) =>
    LET N == CountOver(mv.shape, mv.dim) IN
      /\ ~mv.raised
      /\ mv.divisor >= 0
      /\ mv.divisor = IF N <= mv.correction THEN 0 ELSE N - mv.correction

\* C13 witness: N = 2 elements with correction 3.
C13_Witness ==
  /\ mv.fn = "var" /\ mv.phase = "done"
  /\ CountOver(mv.shape, mv.dim) = 2 /\ mv.correction = 3
  /\ mv.divisor = 0 /\ ~mv.raised

\* ---------------------------------------------------------------------
\* Trace([self]) (tensor.py:175): the operations behind one tensor
\* ---------------------------------------------------------------------

MaxOps == 4

\* An operation has no input (a Storage), one or two.
OpArities == {0, 1, 2}

\* The graphs a program can have built: operation i is created after the
\* operations 1..i-1 and takes its inputs from their outputs, because a
\* tensor's producer is set when the tensor is created.
RECURSIVE GraphsUpTo(_)
GraphsUpTo(n) ==
  IF n = 0 THEN {<<>>}
  ELSE { Append(g, q) : g \in GraphsUpTo(n - 1),
                        q \in UNION { [1..k -> 1..(n - 1)] : k \in OpArities } }

Graphs == GraphsUpTo(MaxOps)

Range(q) == { q[i] : i \in 1..Len(q) }

AlreadySeen_Never(op, seen) == FALSE

\* The walk collects every operation once.
AlreadySeen(op, seen) == op \in seen

TrInit ==
  \E g \in Graphs, root \in 1..MaxOps :
    tr = [phase |-> "walk", inputs |-> g, root |-> root,
          exprs |-> <<root>>, seen |-> {}, collected |-> <<>>,
          emitted |-> {}, ops |-> <<>>]

TrFrame == UNCHANGED <<evalVars, red, val, rep, mv, nm, ar, st, tri, low>>

\* One step of the backward walk over producer links: take the next
\* tensor's producer, skip it when it was seen, else collect it and queue
\* its inputs.
TraceVisit ==
  /\ tr.phase = "walk"
  /\ tr.exprs # <<>>
  /\ LET head == Head(tr.exprs) IN
       IF AlreadySeen(head, tr.seen)
         THEN tr' = [tr EXCEPT !.exprs = Tail(@)]
         ELSE tr' = [tr EXCEPT !.exprs = Tail(@) \o tr.inputs[head],
                               !.seen = @ \cup {head},
                               !.collected = Append(@, head)]
  /\ TrFrame

\* The walk ends when nothing is queued.
TraceWalkDone ==
  /\ tr.phase = "walk"
  /\ tr.exprs = <<>>
  /\ tr' = [tr EXCEPT !.phase = "sort"]
  /\ TrFrame

\* The collected operations are emitted in an order in which the inputs
\* of an operation come before it; any such order may result.
TraceEmit ==
  /\ tr.phase = "sort"
  /\ \E j \in (1..Len(tr.collected)) \ tr.emitted :
       /\ Range(tr.inputs[tr.collected[j]]) \subseteq Range(tr.ops)
       /\ tr' = [tr EXCEPT
                   !.ops = Append(@, tr.collected[j]),
                   !.emitted = @ \cup {j},
                   !.phase = IF tr.emitted \cup {j} = 1..Len(tr.collected)
                               THEN "built" ELSE "sort"]
  /\ TrFrame

TrNext ==
  \/ TraceVisit
  \/ TraceWalkDone
  \/ TraceEmit

InitTrace ==
  /\ EvalParked
  /\ red = RedIdle
  /\ val = ValIdle
  /\ rep = RepIdle
  /\ TrInit
  /\ mv = Unused /\ nm = Unused /\ ar = Unused
  /\ st = Unused /\ tri = Unused /\ low = Unused

SpecTrace == InitTrace /\ [][TrNext]_vars

\* The operations reachable from an operation over producer links.
RECURSIVE Reachable(_, _)
Reachable(g, op) ==
  {op} \cup UNION { Reachable(g, g[op][k]) : k \in 1..Len(g[op]) }

\* C14: the Trace built for a tensor holds every operation reachable from
\* it over producer links exactly once, none that is unreachable, and each
\* after the operations that produce its inputs.
C14_TraceIsReachableInOrder ==
  tr.phase = "built" =>
    /\ Range(tr.ops) = Reachable(tr.inputs, tr.root)
    /\ \A i, j \in 1..Len(tr.ops) : tr.ops[i] = tr.ops[j] => i = j
    /\ \A i \in 1..Len(tr.ops) :
         \A k \in 1..Len(tr.inputs[tr.ops[i]]) :
           \E j \in 1..(i - 1) : tr.ops[j] = tr.inputs[tr.ops[i]][k]

\* C14 witness: a diamond (two operations share an input) next to an
\* operation that the root does not reach.
C14_Witness ==
  /\ tr.phase = "built"
  /\ tr.root = 3
  /\ tr.inputs[3] = <<2, 2>> /\ tr.inputs[2] = <<1, 1>>
  /\ tr.ops = <<1, 2, 3>>

\* ---------------------------------------------------------------------
\* Tensor names (tensor.py:63-74, 108-110, 129-132)
\* ---------------------------------------------------------------------

MaxTensors == 3

\* Tensor._get_unique_name (tensor.py:72): name = f"t{cls._COUNT}"
GeneratedName(count) == "t" \o ToString(count)

\* The names a caller passes as name=...: any string, those of the form
\* t<k> included.
SuppliedNames == {"a", "b"} \cup { GeneratedName(k) : k \in 0..MaxTensors }

\* `count` is Tensor._COUNT, `live` the names of the Tensors alive, in the
\* order of their construction, `made` the number of constructions, and
\* `generated` the names _get_unique_name has returned.
NmInit ==
  nm = [count |-> 0, live |-> <<>>, made |-> 0, generated |-> <<>>]

NmFrame == UNCHANGED <<evalVars, red, val, rep, mv, tr, ar, st, tri, low>>

\* Tensor(data, name=n) (tensor.py:108-110): the caller's name is taken as
\* it is.  The caller keeps the contract of the docstring: n is the name
\* of no live Tensor.
ConstructNamed ==
  /\ nm.made < MaxTensors
  /\ \E n \in SuppliedNames \ Range(nm.live) :
       nm' = [nm EXCEPT !.live = Append(@, n), !.made = @ + 1]
  /\ NmFrame

\* Tensor(data) (tensor.py:108-110, 70-74): the name is generated and the
\* counter advances
ConstructUnnamed ==
  /\ nm.made < MaxTensors
  /\ nm' = [nm EXCEPT !.live = Append(@, GeneratedName(nm.count)),
                      !.generated = Append(@, GeneratedName(nm.count)),
                      !.count = @ + 1,
                      !.made = @ + 1]
  /\ NmFrame

\* Tensor(data, dtype=d) or Tensor(data, dtype=d, name=n) with d another
\* dtype than the data's (tensor.py:108, 129-132): after the name of line
\* 108 the Tensor takes the trace tensor of cast(self), the output of a
\* Tensor built without a name.
ConstructCast ==
  /\ nm.made < MaxTensors
  /\ \E named \in BOOLEAN :
       LET first == IF named THEN <<>> ELSE <<GeneratedName(nm.count)>>
           count == nm.count + Len(first)
       IN nm' = [nm EXCEPT !.live = Append(@, GeneratedName(count)),
                           !.generated = @ \o first \o <<GeneratedName(count)>>,
                           !.count = count + 1,
                           !.made = @ + 1]
  /\ NmFrame

\* A Tensor is released.
Release ==
  /\ \E i \in 1..Len(nm.live) :
       nm' = [nm EXCEPT !.live = SubSeq(@, 1, i - 1) \o SubSeq(@, i + 1, Len(@))]
  /\ NmFrame

NmNext ==
  \/ ConstructNamed
  \/ ConstructUnnamed
  \/ ConstructCast
  \/ Release

InitNames ==
  /\ EvalParked
  /\ red = RedIdle
  /\ val = ValIdle
  /\ rep = RepIdle
  /\ NmInit
  /\ mv = Unused /\ tr = Unused /\ ar = Unused
  /\ st = Unused /\ tri = Unused /\ low = Unused

SpecNames == InitNames /\ [][NmNext]_vars

\* C15: no two live Tensors have the same name, and a caller's name never
\* equals a generated one; the counter behind the generated names grows by
\* one per generated name.
C15_NamesUnique ==
  /\ \A i, j \in 1..Len(nm.live) : nm.live[i] = nm.live[j] => i = j
  /\ Len(nm.generated) = nm.count
  /\ \A k \in 1..Len(nm.generated) : nm.generated[k] = GeneratedName(k - 1)

\* ---------------------------------------------------------------------
\* arange(start, stop, step) (tensor_initializers.py:247-291)
\* ---------------------------------------------------------------------

MaxHalves == 3

\* start, stop and step are numbers; the model counts them in halves, so
\* that 3 stands for 1.5, and differences, products with an integer and
\* quotients of two of them are exact.
ArangeNumbers == (0 - MaxHalves)..MaxHalves

\* floor(a / b) and ceil(a / b) of the quotient of two numbers, b # 0
FloorDiv(a, b) == IF b > 0 THEN a \div b ELSE (0 - a) \div (0 - b)
CeilDiv(a, b) == 0 - FloorDiv(0 - a, b)

ArangeSize_Floor(start, stop, step) == FloorDiv(stop - start, step)

\* tensor_initializers.py:282  size = math.ceil((stop - start) / step)
ArangeSize(start, stop, step) == CeilDiv(stop - start, step)

ArInit ==
  \E start \in ArangeNumbers, stop \in ArangeNumbers, step \in ArangeNumbers :
    ar = [phase |-> "called", start |-> start, stop |-> stop, step |-> step,
          size |-> 0, graph |-> <<>>, output |-> <<>>, err |-> "none"]

ArFrame == UNCHANGED <<evalVars, red, val, rep, mv, tr, nm, st, tri, low>>

\* tensor_initializers.py:279-280
ArangeCheckStep ==
  /\ ar.phase = "called"
  /\ IF ar.step = 0
       THEN ar' = [ar EXCEPT !.err = "InvalidArgument", !.phase = "raised"]
       ELSE ar' = [ar EXCEPT !.phase = "size"]
  /\ ArFrame

\* tensor_initializers.py:282-289
ArangeCheckSize ==
  /\ ar.phase = "size"
  /\ LET size == ArangeSize(ar.start, ar.stop, ar.step) IN
       IF size <= 0
         THEN ar' = [ar EXCEPT !.size = size, !.err = "InvalidArgument",
                               !.phase = "raised"]
         ELSE ar' = [ar EXCEPT !.size = size, !.phase = "build"]
  /\ ArFrame

\* tensor_initializers.py:290
\*   output = iota((size,), 0, dtype) * full((size,), step, dtype)
\*            + full((size,), start, dtype)
ArangeBuild ==
  /\ ar.phase = "build"
  /\ LET iota == [i \in 1..ar.size |-> i - 1]
         full_step == [i \in 1..ar.size |-> ar.step]
         full_start == [i \in 1..ar.size |-> ar.start]
     IN ar' = [ar EXCEPT
                 !.graph = <<"iota", "full", "mul", "full", "add">>,
                 !.output = [i \in 1..ar.size |->
                               iota[i] * full_step[i] + full_start[i]],
                 !.phase = "done"]
  /\ ArFrame

ArNext ==
  \/ ArangeCheckStep
  \/ ArangeCheckSize
  \/ ArangeBuild

InitArange ==
  /\ EvalParked
  /\ red = RedIdle
  /\ val = ValIdle
  /\ rep = RepIdle
  /\ ArInit
  /\ mv = Unused /\ tr = Unused /\ nm = Unused
  /\ st = Unused /\ tri = Unused /\ low = Unused

SpecArange == InitArange /\ [][ArNext]_vars

\* n is ceil((stop - start) / step): the least integer that is not below
\* the quotient.
IsCeil(n, start, stop, step) ==
  IF step > 0
    THEN n * step >= stop - start /\ (n - 1) * step < stop - start
    ELSE n * step <= stop - start /\ (n - 1) * step > stop - start

C16_WitnessRaised ==
  /\ ar.phase = "raised" /\ ar.graph = <<>>
  /\ ar.step < 0 /\ ar.stop > ar.start

\* ---------------------------------------------------------------------
\* Streams (tests/backend/test_stream.py:21-31)
\* ---------------------------------------------------------------------

MaxStreamCalls == 8

\* No runtime stream has been created for the default yet.
NoStream == 0

\* Stream.__eq__: two streams are equal when they wrap the same runtime
\* stream.
StreamEq(a, b) == a = b

DefaultIsCached_Never(cached) == FALSE

\* default_stream() creates its stream on the first call only.
DefaultIsCached(cached) == cached # NoStream

\* `created` counts the runtime streams created, each with a handle of its
\* own; `default` is the one default_stream() keeps; `defaults` and
\* `streams` are what the calls of default_stream() and Stream() returned.
StInit ==
  st = [created |-> 0, default |-> NoStream, defaults |-> <<>>, streams |-> <<>>]

StFrame == UNCHANGED <<evalVars, red, val, rep, mv, tr, nm, ar, tri, low>>

\* tp.default_stream() (test_stream.py:22-23)
DefaultStream ==
  /\ Len(st.defaults) + Len(st.streams) < MaxStreamCalls
  /\ IF DefaultIsCached(st.default)
       THEN st' = [st EXCEPT !.defaults = Append(@, st.default)]
       ELSE st' = [st EXCEPT !.created = @ + 1,
                             !.default = st.created + 1,
                             !.defaults = Append(@, st.created + 1)]
  /\ StFrame

\* tp.Stream() (test_stream.py:28-29)
NewStream ==
  /\ Len(st.defaults) + Len(st.streams) < MaxStreamCalls
  /\ st' = [st EXCEPT !.created = @ + 1,
                      !.streams = Append(@, st.created + 1)]
  /\ StFrame

StNext ==
  \/ DefaultStream
  \/ NewStream

InitStream ==
  /\ EvalParked
  /\ red = RedIdle
  /\ val = ValIdle
  /\ rep = RepIdle
  /\ StInit
  /\ mv = Unused /\ tr = Unused /\ nm = Unused
  /\ ar = Unused /\ tri = Unused /\ low = Unused

SpecStream == InitStream /\ [][StNext]_vars

MaxDiagonal == 1

\* Tensors of rank 2 and more: matrices and batches of matrices.
TriShapes == UNION { [1..r -> 1..MaxExtent] : r \in 2..(MaxRank + 1) }

\* iota_like(tensor, dim, int32): every element holds its own index
\* along axis dim
iota_like(shape, dim) == [p \in 1..Prod(shape) |-> Coord(p - 1, shape, dim + 1)]

\* full_like(tensor, value, int32)
full_like(shape, value) == [p \in 1..Prod(shape) |-> value]

\* where(condition, input, other), element by element
where(condition, input, other) ==
  [p \in 1..Len(condition) |-> IF condition[p] THEN input[p] ELSE other[p]]

\* tensor_initializers.py:187-189 (tril) and 239-241 (triu)
\*   tri_mask = (iota_like(tensor, 0) + full_like(tensor, diagonal))
\*                 >= iota_like(tensor, 1)            with <= for triu
tri_mask(fn, shape, diagonal) ==
  [p \in 1..Prod(shape) |->
     IF fn = "tril"
       THEN iota_like(shape, 0)[p] + full_like(shape, diagonal)[p] >= iota_like(shape, 1)[p]
       ELSE iota_like(shape, 0)[p] + full_like(shape, diagonal)[p] <= iota_like(shape, 1)[p]]

\* One call of tril or triu on a tensor whose element at flat position p
\* holds p, a value other than 0.
TriInit ==
  \E fn \in {"tril", "triu"}, sh \in TriShapes,
     d \in (0 - MaxDiagonal)..MaxDiagonal :
    tri = [phase |-> "called", fn |-> fn, shape |-> sh, diagonal |-> d,
           tensor |-> Labelled(sh).elems,
           mask |-> <<>>, out_shape |-> <<>>, output |-> <<>>]

TriFrame == UNCHANGED <<evalVars, red, val, rep, mv, tr, nm, ar, st, low>>

\* tensor_initializers.py:187-189, 239-241
TriMask ==
  /\ tri.phase = "called"
  /\ tri' = [tri EXCEPT !.mask = tri_mask(tri.fn, tri.shape, tri.diagonal),
                        !.phase = "where"]
  /\ TriFrame

\* tensor_initializers.py:190-191, 242-243
\*   zeros_tensor = zeros_like(tensor); return where(tri_mask, tensor, zeros_tensor)
TriWhere ==
  /\ tri.phase = "where"
  /\ LET zeros_tensor == full_like(tri.shape, 0) IN
       tri' = [tri EXCEPT !.output = where(tri.mask, tri.tensor, zeros_tensor),
                          !.out_shape = tri.shape,
                          !.phase = "done"]
  /\ TriFrame

TriNext ==
  \/ TriMask
  \/ TriWhere

InitTri ==
  /\ EvalParked
  /\ red = RedIdle
  /\ val = ValIdle
  /\ rep = RepIdle
  /\ TriInit
  /\ mv = Unused /\ tr = Unused /\ nm = Unused
  /\ ar = Unused /\ st = Unused /\ low = Unused

SpecTri == InitTri /\ [][TriNext]_vars

\* C18: on a tensor of rank 2 or more, taken as a batch of [M, N] matrices
\* over its last two axes, tril keeps the element at row i, column j iff
\* j - i <= diagonal and triu iff j - i >= diagonal; every other element is
\* 0 and the shape is the input's.
C18_TriOverLastTwoAxes ==
  tri.phase = "done" =>
    /\ tri.out_shape = tri.shape
    /\ \A p \in 1..Prod(tri.shape) :
         LET r == Len(tri.shape)
             i == Coord(p - 1, tri.shape, r - 1)
             j == Coord(p - 1, tri.shape, r)
             keep == IF tri.fn = "tril" THEN j - i <= tri.diagonal
                     ELSE j - i >= tri.diagonal
         IN tri.output[p] = IF keep THEN tri.tensor[p] ELSE 0

\* On matrices (rank 2) the code does what C18 says.
TriOnMatrices ==
  (tri.phase = "done" /\ Len(tri.shape) = 2) =>
    \A p \in 1..Prod(tri.shape) :
      LET i == Coord(p - 1, tri.shape, 1)
          j == Coord(p - 1, tri.shape, 2)
          keep == IF tri.fn = "tril" THEN j - i <= tri.diagonal
                  ELSE j - i >= tri.diagonal
      IN tri.output[p] = IF keep THEN tri.tensor[p] ELSE 0

\* ---------------------------------------------------------------------
\* Lowering to the flat IR: Reduce.to_flat_ir (reduce.py:57-89)
\* ---------------------------------------------------------------------

\* tripy.common.utils.get_element_type of a Python literal: an int is
\* int32, a bool is bool
get_element_type(kind) == IF kind \in {"AND", "OR"} THEN "bool" ELSE "int32"

\* FlatIRTensor.build(rank, dtype, ...)
FlatIRTensor(name, rank, dtype) == [name |-> name, rank |-> rank, dtype |-> dtype]

\* An op of the flat IR: ConstantOp (with its data), ConvertOp, ReduceOp
\* (with reduce_mode and reduce_dims)
FlatIROp(op, inputs, outputs, attr) ==
  [op |-> op, inputs |-> inputs, outputs |-> outputs, attr |-> attr]

NoAttr == [data |-> "none", data_dtype |-> "none", reduce_mode |-> "none",
           reduce_dims |-> <<>>]

NeedsConvert_Never(kind, out_dtype) == FALSE

\* reduce.py:73  if get_element_type(init_value) != outputs[0].dtype
NeedsConvert(kind, out_dtype) == get_element_type(kind) # out_dtype

\* A Reduce op after inference: its kind, its normalized dim, its input
\* and its output.  Or an ArgMinMax op after inference, as
\* _arg_min_max_impl builds it (reduce.py:400-404): its inputs are the
\* tensor, flattened to rank 1 when dim is None, and the indices of
\* iota_like(tensor, ..., int32); its output is int32.
LowInit ==
  \/ \E kind \in ReduceKinds, in_rank \in Ranks, in_dtype \in DTypes :
       \E dim \in { d \in ReduceDims : ValidDim(d, in_rank) } :
         low = [phase |-> "lower", op |-> "Reduce", kind |-> kind,
                dim |-> Reduce_infer_rank(in_rank, dim).dim,
                inputs |-> <<FlatIRTensor("input", in_rank, in_dtype)>>,
                outputs |-> <<FlatIRTensor("output", Reduce_infer_rank(in_rank, dim).rank,
                                           in_dtype)>>,
                init_const |-> FlatIRTensor("none", 0, "none"),
                init_idx_const |-> FlatIRTensor("none", 0, "none"),
                ops |-> <<>>]
  \/ \E kind \in ArgKinds, in_rank \in Ranks, in_dtype \in DTypes :
       \E dim \in { d \in ArgDims : ValidDim(d, in_rank) } :
         LET rank == IF dim.form = "none" THEN 1 ELSE in_rank IN
           low = [phase |-> "arg_lower", op |-> "ArgMinMax", kind |-> kind,
                  dim |-> Reduce_infer_rank(rank, dim).dim,
                  inputs |-> <<FlatIRTensor("tensor", rank, in_dtype),
                               FlatIRTensor("indices", rank, "int32")>>,
                  outputs |-> <<FlatIRTensor("output", Reduce_infer_rank(rank, dim).rank,
                                             ArgMinMax_infer_dtypes(in_dtype))>>,
                  init_const |-> FlatIRTensor("none", 0, "none"),
                  init_idx_const |-> FlatIRTensor("none", 0, "none"),
                  ops |-> <<>>]

LowFrame == UNCHANGED <<evalVars, red, val, rep, mv, tr, nm, ar, st, tri>>

\* reduce.py:64-72  init_value and the tensor init_const
LowerInitConst ==
  /\ low.phase = "lower" /\ low.op = "Reduce"
  /\ low' = [low EXCEPT
               !.init_const = FlatIRTensor("init_const", 0, low.outputs[1].dtype),
               !.phase = "constant"]
  /\ LowFrame

\* reduce.py:73-87  the constant, converted when the literal's type is not
\* the output's
LowerConstant ==
  /\ low.phase = "constant"
  /\ IF NeedsConvert(low.kind, low.outputs[1].dtype)
       THEN LET init_const_from_kind ==
                  FlatIRTensor("init_const_from_kind", 0, get_element_type(low.kind))
            IN low' = [low EXCEPT
                         !.ops = @ \o
                           <<FlatIROp("ConstantOp", <<>>, <<init_const_from_kind>>,
                                      [NoAttr EXCEPT
                                         !.data = ToString(init_value(low.kind)),
                                         !.data_dtype = get_element_type(low.kind)]),
                             FlatIROp("ConvertOp", <<init_const_from_kind>>,
                                      <<low.init_const>>, NoAttr)>>,
                         !.phase = "reduce"]
       ELSE low' = [low EXCEPT
                      !.ops = Append(@,
                                FlatIROp("ConstantOp", <<>>, <<low.init_const>>,
                                         [NoAttr EXCEPT
                                            !.data = ToString(init_value(low.kind)),
                                            !.data_dtype = low.outputs[1].dtype])),
                      !.phase = "reduce"]
  /\ LowFrame

\* reduce.py:89  ReduceOp.build([inputs[0], init_const], outputs,
\*                              reduce_mode=self.kind.op, reduce_dims=self.dim)
LowerReduce ==
  /\ low.phase = "reduce"
  /\ low' = [low EXCEPT
               !.ops = Append(@,
                         FlatIROp("ReduceOp", <<low.inputs[1], low.init_const>>,
                                  low.outputs,
                                  [NoAttr EXCEPT !.reduce_mode = low.kind,
                                                 !.reduce_dims = low.dim])),
               !.phase = "done"]
  /\ LowFrame

ArgMinMaxOpInputs_ConstantsSwapped(inputs, init_val_const, init_idx_const) ==
  <<inputs[1], inputs[2], init_idx_const, init_val_const>>

\* reduce.py:140  [inputs[0], inputs[1], init_val_const, init_idx_const]
ArgMinMaxOpInputs(inputs, init_val_const, init_idx_const) ==
  <<inputs[1], inputs[2], init_val_const, init_idx_const>>

\* reduce.py:111-126  the tensors init_val_const (rank 0, the input's
\* dtype) and init_idx_const (rank 0, the output's dtype); `init_const`
\* holds the former
LowerArgInitConsts ==
  /\ low.phase = "arg_lower" /\ low.op = "ArgMinMax"
  /\ low' = [low EXCEPT
               !.init_const = FlatIRTensor("init_val_const", 0, low.inputs[1].dtype),
               !.init_idx_const = FlatIRTensor("init_idx_const", 0, low.outputs[1].dtype),
               !.phase = "arg_constants"]
  /\ LowFrame

\* reduce.py:128-137  two ConstantOp of Array(0, shape=(), dtype=...)
LowerArgConstants ==
  /\ low.phase = "arg_constants"
  /\ low' = [low EXCEPT
               !.ops = @ \o
                 <<FlatIROp("ConstantOp", <<>>, <<low.init_const>>,
                            [NoAttr EXCEPT !.data = ToString(ArgInitVal),
                                           !.data_dtype = low.inputs[1].dtype]),
                   FlatIROp("ConstantOp", <<>>, <<low.init_idx_const>>,
                            [NoAttr EXCEPT !.data = ToString(ArgInitIdx),
                                           !.data_dtype = low.outputs[1].dtype])>>,
               !.phase = "arg_reduce"]
  /\ LowFrame

\* reduce.py:139-144  ArgMinMaxOp.build
LowerArgMinMax ==
  /\ low.phase = "arg_reduce"
  /\ low' = [low EXCEPT
               !.ops = Append(@,
                         FlatIROp("ArgMinMaxOp",
                                  ArgMinMaxOpInputs(low.inputs, low.init_const,
                                                    low.init_idx_const),
                                  low.outputs,
                                  [NoAttr EXCEPT !.reduce_mode = low.kind,
                                                 !.reduce_dims = low.dim])),
               !.phase = "done"]
  /\ LowFrame

LowNext ==
  \/ LowerInitConst
  \/ LowerConstant
  \/ LowerReduce
  \/ LowerArgInitConsts
  \/ LowerArgConstants
  \/ LowerArgMinMax

InitLower ==
  /\ EvalParked
  /\ red = RedIdle
  /\ val = ValIdle
  /\ rep = RepIdle
  /\ LowInit
  /\ mv = Unused /\ tr = Unused /\ nm = Unused
  /\ ar = Unused /\ st = Unused /\ tri = Unused

SpecLower == InitLower /\ [][LowNext]_vars

\* C20: lowering a Reduce emits one constant holding the kind's initial
\* value, then a convert iff the literal's element type is not the output
\* dtype, then exactly one reduce op with the inputs (input, initial-value
\* constant), the operation's output and the normalized dim; the constant
\* the reduce op reads has rank 0 and the output's dtype.
C20_ReduceLowering ==
  (low.op = "Reduce" /\ low.phase = "done") =>
    LET n == Len(low.ops)
        literal == IF low.kind \in {"AND", "OR"} THEN "bool" ELSE "int32"
        converts == literal # low.outputs[1].dtype
        reduce == low.ops[n]
    IN /\ n = IF converts THEN 3 ELSE 2
       /\ low.ops[1].op = "ConstantOp"
       /\ low.ops[1].attr.data = ToString(init_value(low.kind))
       /\ low.ops[1].inputs = <<>>
       /\ converts =>
            /\ low.ops[2].op = "ConvertOp"
            /\ low.ops[2].inputs = low.ops[1].outputs
            /\ low.ops[2].outputs = <<reduce.inputs[2]>>
            /\ low.ops[1].outputs[1].dtype = literal
       /\ ~converts => low.ops[1].outputs = <<reduce.inputs[2]>>
       /\ reduce.op = "ReduceOp"
       /\ \A k \in 1..(n - 1) : low.ops[k].op # "ReduceOp"
       /\ Len(reduce.inputs) = 2
       /\ reduce.inputs[1] = low.inputs[1]
       /\ reduce.inputs[2].rank = 0
       /\ reduce.inputs[2].dtype = low.outputs[1].dtype
       /\ reduce.outputs = low.outputs
       /\ reduce.attr.reduce_mode = low.kind
       /\ reduce.attr.reduce_dims = low.dim
       /\ Len(reduce.attr.reduce_dims) = Cardinality(Range(reduce.attr.reduce_dims))
       /\ \A k \in 1..Len(reduce.attr.reduce_dims) :
            reduce.attr.reduce_dims[k] \in 0..(low.inputs[1].rank - 1)

\* C20 witness: a float32 sum over a negative axis, lowered with a convert
\* of the int32 literal 0.
C20_Witness ==
  /\ low.op = "Reduce" /\ low.phase = "done"
  /\ low.kind = "SUM" /\ low.outputs[1].dtype = "float32"
  /\ Len(low.ops) = 3 /\ low.ops[2].op = "ConvertOp"
  /\ low.ops[3].attr.reduce_dims = <<1>>

\* C20 witness without a convert: an int32 product.
C20_WitnessNoConvert ==
  /\ low.op = "Reduce" /\ low.phase = "done"
  /\ low.kind = "MUL" /\ low.outputs[1].dtype = "int32"
  /\ Len(low.ops) = 2 /\ low.ops[1].attr.data = "1"

\* C21: lowering an ArgMinMax emits exactly two rank-0 constants of value
\* 0, one of the input's dtype and one of the output (index) dtype, then
\* exactly one arg-reduce op whose four inputs are the value tensor, the
\* index tensor, the value constant and the index constant, in that order.
C21_ArgMinMaxLowering ==
  (low.op = "ArgMinMax" /\ low.phase = "done") =>
    LET arg == low.ops[Len(low.ops)]
        constants == { k \in 1..Len(low.ops) : low.ops[k].op = "ConstantOp" }
    IN /\ Len(low.ops) = 3
       /\ constants = {1, 2}
       /\ \A k \in constants :
            /\ low.ops[k].attr.data = "0"
            /\ low.ops[k].inputs = <<>>
            /\ Len(low.ops[k].outputs) = 1
            /\ low.ops[k].outputs[1].rank = 0
            /\ low.ops[k].attr.data_dtype = low.ops[k].outputs[1].dtype
       /\ arg.op = "ArgMinMaxOp"
       /\ Len(arg.inputs) = 4
       /\ arg.inputs[1] = low.inputs[1]
       /\ arg.inputs[2] = low.inputs[2]
       /\ \E k \in constants :
            /\ arg.inputs[3] = low.ops[k].outputs[1]
            /\ arg.inputs[3].dtype = low.inputs[1].dtype
       /\ \E k \in constants :
            /\ arg.inputs[4] = low.ops[k].outputs[1]
            /\ arg.inputs[4].dtype = low.outputs[1].dtype
       /\ arg.inputs[3] # arg.inputs[4]
       /\ low.outputs[1].dtype = "int32"
       /\ arg.outputs = low.outputs
       /\ arg.attr.reduce_mode = low.kind
       /\ arg.attr.reduce_dims = low.dim

\* C21 witness: an argmax over a negative axis of a float16 tensor, with a
\* float16 value constant and an int32 index constant.
C21_Witness ==
  /\ low.op = "ArgMinMax" /\ low.phase = "done"
  /\ low.kind = "ARG_MAX" /\ low.inputs[1].dtype = "float16"
  /\ low.inputs[1].rank = 2 /\ low.dim = <<1>>
  /\ low.ops[3].inputs[3].dtype = "float16"
  /\ low.ops[3].inputs[4].dtype = "int32"

\* The axes C22 expects of a keepdim=True reduction: the input's, with
\* the reduced ones replaced by an axis of extent 1.
KeepdimAxes(in_rank, dim) ==
  [i \in 1..in_rank |-> IF i - 1 \in ReducedAxes(dim, in_rank) THEN One ELSE i - 1]

\* C22: for keepdim=True and a valid dim written with positive indices,
\* negative indices or both, in any order, the output shape is the input
\* shape with exactly the reduced axes replaced by 1, and no unsqueeze is
\* applied at an index out of the range of the intermediate tensor.
C22_KeepdimAxesInPlace ==
  (red.phase = "done" /\ red.fn = "reduce" /\ red.keepdim
     /\ ValidDim(red.dim, red.in_rank)) =>
    /\ ~red.unsqueeze_out_of_range
    /\ red.out_axes = KeepdimAxes(red.in_rank, red.dim)

\* With a dim of non-negative indices only, or None, the code does what
\* C22 says.
KeepdimNonNegativeDims ==
  (red.phase = "done" /\ red.fn = "reduce" /\ red.keepdim
     /\ ValidDim(red.dim, red.in_rank)
     /\ \A k \in 1..Len(make_list(red.dim)) : make_list(red.dim)[k] >= 0) =>
    /\ ~red.unsqueeze_out_of_range
    /\ red.out_axes = KeepdimAxes(red.in_rank, red.dim)

====
